---- MODULE Spec2Model ----
(***************************************************************************)
(* Model of speasy's fragment cache (speasy/core/cache/_providers_caches.py)*)
(* and of the series merge (speasy/products/variable.py).                   *)
(*                                                                          *)
(* Data time axis: integer minutes counted from 2021-01-08T00:00.           *)
(* Wall clock of the retention cache: integer hours.                        *)
(***************************************************************************)
EXTENDS Integers, Sequences, FiniteSets, TLC

VARIABLES
    mode,            \* which decorator wraps the fetch function
    naming,          \* the entry_name function the decorator was built with
    scaling,         \* how DateTimeRange.__mul__ anchors the grown window
    cache,           \* CacheStore: key -> CacheItem, domain = the stored keys
    productVersion,  \* what the version function returns now (Cacheable)
    now,             \* UTC wall clock, hours (UnversionedProviderCache)
    tz,              \* local time minus UTC, hours
    last,            \* trace of the most recent lookup
    mIn,             \* merge(): the list handed to it
    mOut,            \* merge(): what it returned
    pIn,             \* planner functions: the arguments of the call
    pOut,            \* planner functions: what the call returned
    reader,          \* a lookup's read of its planned fragments, entry by entry
    procs            \* the lookups running at the same time, step by step

vars == <<mode, naming, scaling, cache, productVersion, now, tz, last, mIn, mOut,
          pIn, pOut, reader, procs>>

\* what no lookup and no passing of time changes
setup == <<mode, naming, scaling, tz, mIn, mOut, pIn, pOut, reader, procs>>

-----------------------------------------------------------------------------
(* Python values                                                            *)

NoneVal == [none |-> TRUE]

\* item.version is None
NoVersion == -1

AttributeError == [err |-> "AttributeError"]
TypeError == [err |-> "TypeError"]

\* what the fetch function raises when it fails
FetchError == [err |-> "FetchError"]

\* the function has not been called
NotCalled == [pending |-> TRUE]

IsError(x) == "err" \in DOMAIN x

Max(a, b) == IF a >= b THEN a ELSE b
Min(a, b) == IF a <= b THEN a ELSE b

CeilDiv(a, b) == (a + b - 1) \div b

\* a function over 1..n as the tuple of its values
AsList(f) == f \o <<>>

-----------------------------------------------------------------------------
(* SpeasyVariable                                                           *)

SpeasyVariable(time, values, meta, columns) ==
    [time |-> time, values |-> values, meta |-> meta, columns |-> columns]

\* np.searchsorted(time, key, side='right'): the index after the samples
\* equal to the key, where side='left' gives the index before them
searchsorted_right(time, key) ==
    CHOOSE i \in 0..Len(time) :
        /\ \A j \in 1..i : time[j] <= key
        /\ \A j \in (i + 1)..Len(time) : key < time[j]

\* np.searchsorted(time, key, side='left') on a sorted axis
searchsorted(time, key) ==
    CHOOSE i \in 0..Len(time) :
        /\ \A j \in 1..i : time[j] < key
        /\ \A j \in (i + 1)..Len(time) : key <= time[j]

\* _to_index for a datetime key
to_index(key, time) == searchsorted(time, key)

\* Python's seq[a:b] for 0 <= a, 0 <= b
PySlice(s, a, b) == SubSeq(s, a + 1, Min(b, Len(s)))

\* SpeasyVariable.view(slice(a, b))
view(v, a, b) ==
    SpeasyVariable(PySlice(v.time, a, b), PySlice(v.values, a, b), v.meta, v.columns)

\* SpeasyVariable.__getitem__(slice(start, stop)) with datetime bounds
getitem(v, start, stop) == view(v, to_index(start, v.time), to_index(stop, v.time))

-----------------------------------------------------------------------------
(* merge                                                                    *)

IsUsable(v) == v # NoneVal /\ Len(v.time) > 0

\* list.remove(x): drops the first element equal to x
RECURSIVE ListRemove(_, _)
ListRemove(l, x) ==
    IF l = <<>> THEN <<>>
    ELSE IF Head(l) = x THEN Tail(l)
    ELSE <<Head(l)>> \o ListRemove(Tail(l), x)

\* list.sort(key=lambda v: v.time[0]): stable
RECURSIVE SortInsert(_, _)
SortInsert(l, v) ==
    IF l = <<>> THEN <<v>>
    ELSE IF Head(l).time[1] <= v.time[1] THEN <<Head(l)>> \o SortInsert(Tail(l), v)
    ELSE <<v>> \o l

RECURSIVE SortByStart(_)
SortByStart(l) ==
    IF l = <<>> THEN <<>>
    ELSE SortInsert(SortByStart(SubSeq(l, 1, Len(l) - 1)), l[Len(l)])

LastOf(s) == s[Len(s)]

\* "drop variables covered by previous ones": the pairs come from a copy of
\* the list taken before the loop, the removals act on the list itself
RECURSIVE DropCoveredByPrev(_, _, _)
DropCoveredByPrev(snapshot, i, l) ==
    IF i >= Len(snapshot) THEN l
    ELSE DropCoveredByPrev(snapshot, i + 1,
            IF LastOf(snapshot[i].time) >= LastOf(snapshot[i + 1].time)
            THEN ListRemove(l, snapshot[i + 1]) ELSE l)

\* "drop variables covered by next ones"
RECURSIVE DropCoveredByNext(_, _, _)
DropCoveredByNext(snapshot, i, l) ==
    IF i >= Len(snapshot) THEN l
    ELSE DropCoveredByNext(snapshot, i + 1,
            IF /\ snapshot[i + 1].time[1] = snapshot[i].time[1]
               /\ LastOf(snapshot[i + 1].time) >= LastOf(snapshot[i].time)
            THEN ListRemove(l, snapshot[i]) ELSE l)

\* the overlap taken with > where the code has >=: current keeps its sample
\* at nxt's first instant
OverlapAfter(current, nxt) ==
    IF LastOf(current.time) > nxt.time[1]
    THEN (CHOOSE k \in 1..Len(current.time) :
            /\ current.time[k] > nxt.time[1]
            /\ \A j \in 1..(k - 1) : current.time[j] <= nxt.time[1]) - 1
    ELSE -1

\* np.where(current.time >= nxt.time[0])[0][0], or -1 without overlap
Overlap(current, nxt) ==
    IF LastOf(current.time) >= nxt.time[1]
    THEN (CHOOSE k \in 1..Len(current.time) :
            /\ current.time[k] >= nxt.time[1]
            /\ \A j \in 1..(k - 1) : current.time[j] < nxt.time[1]) - 1
    ELSE -1

Overlaps(l) == AsList([i \in 1..(Len(l) - 1) |-> Overlap(l[i], l[i + 1])])

\* a copy loop that takes every fragment whole
FragLenWhole(r, overlap) == Len(r.time)

\* frag_len = len(r.time) if overlap == -1 else overlap
FragLen(r, overlap) == IF overlap = -1 THEN Len(r.time) ELSE overlap

\* the copy loop over zip(sorted_var_list, overlaps + [-1]), filling
\* time[pos:pos+frag_len] and data[pos:pos+frag_len]
RECURSIVE CopyTime(_, _, _)
CopyTime(l, overlaps, i) ==
    IF i > Len(l) THEN <<>>
    ELSE PySlice(l[i].time, 0, FragLen(l[i], overlaps[i])) \o CopyTime(l, overlaps, i + 1)

RECURSIVE CopyValues(_, _, _)
CopyValues(l, overlaps, i) ==
    IF i > Len(l) THEN <<>>
    ELSE PySlice(l[i].values, 0, FragLen(l[i], overlaps[i])) \o CopyValues(l, overlaps, i + 1)

DropPass2(pass1) == DropCoveredByNext(pass1, 1, pass1)

DropPass1(sorted) == DropPass2(DropCoveredByPrev(sorted, 1, sorted))

\* the list merge() is left with after the filter, the sort and both drops
MergeSorted(variables) == DropPass1(SortByStart(SelectSeq(variables, IsUsable)))

MergeCopy(sorted_var_list, overlaps) ==
    SpeasyVariable(CopyTime(sorted_var_list, overlaps, 1),
                   CopyValues(sorted_var_list, overlaps, 1),
                   sorted_var_list[1].meta, sorted_var_list[1].columns)

MergeKept(variables, sorted_var_list) ==
    IF Len(sorted_var_list) = 0
    THEN IF variables[1] = NoneVal
         THEN AttributeError   \* None has no attribute 'columns'
         ELSE SpeasyVariable(<<>>, <<>>, variables[1].meta, variables[1].columns)
    ELSE MergeCopy(sorted_var_list, Overlaps(sorted_var_list) \o <<-1>>)

merge(variables) ==
    IF Len(variables) = 0 THEN NoneVal
    ELSE MergeKept(variables, MergeSorted(variables))

-----------------------------------------------------------------------------
(* Fragment planner                                                         *)

MinutesPerHour == 60
MinutesPerDay == 24 * MinutesPerHour

\* datetime fields of a minute count
DayStart(dt) == dt - (dt % MinutesPerDay)
HourOf(dt) == (dt % MinutesPerDay) \div MinutesPerHour

\* timedelta(hours=h), in minutes
timedelta_hours(h) == h * MinutesPerHour

DateTimeRange(start_time, stop_time) == [start_time |-> start_time, stop_time |-> stop_time]

\* cache_margins=1.2, as the fraction 6/5
cache_margins == <<6, 5>>

\* anchors of the margin scaling
Anchors == {"start", "center"}

\* dt_range * cache_margins: the window grown to cache_margins times its
\* duration, either past its stop only or by half the extra on each side
ScaleBy(dt_range, extra, anchor) ==
    IF anchor = "start"
    THEN DateTimeRange(dt_range.start_time, dt_range.stop_time + extra)
    ELSE DateTimeRange(dt_range.start_time - (extra \div 2),
                       dt_range.stop_time + (extra \div 2))

Scale(dt_range, factor, anchor) ==
    ScaleBy(dt_range,
            ((dt_range.stop_time - dt_range.start_time) * (factor[1] - factor[2])) \div factor[2],
            anchor)

lower_hour_bound(dt, factor) == (HourOf(dt) \div factor) * factor

\* the upper bound taken from the hour alone, without the offset of one
\* that a stop past the hour adds
upper_hour_bound_truncating(dt, factor) ==
    Max(CeilDiv(HourOf(dt), factor), 1) * factor

upper_hour_bound(dt, factor) ==
    LET offsef == IF dt % MinutesPerHour # 0 THEN 1 ELSE 0
    IN  Max(CeilDiv(HourOf(dt) + offsef, factor), 1) * factor

round_for_cache(dt_range, fragment_hours) ==
    DateTimeRange(
        DayStart(dt_range.start_time)
            + timedelta_hours(lower_hour_bound(dt_range.start_time, fragment_hours)),
        DayStart(dt_range.stop_time)
            + timedelta_hours(upper_hour_bound(dt_range.stop_time, fragment_hours)))

\* [start + i * dt for i in range(n)]
Arange(start, dt, n) == AsList([i \in 1..Max(n, 0) |-> start + (i - 1) * dt])

\* fragment_list without the fragment_hours it also returns: the list built
\* by the comprehension, then every start appended again by the while loop
RECURSIVE WhileTend(_, _, _)
WhileTend(tend, stop_time, dt) ==
    IF tend < stop_time THEN <<tend>> \o WhileTend(tend + dt, stop_time, dt) ELSE <<>>

Fragments(cache_dt_range, dt) ==
    Arange(cache_dt_range.start_time, dt,
           CeilDiv(cache_dt_range.stop_time - cache_dt_range.start_time, dt))
    \o WhileTend(cache_dt_range.start_time, cache_dt_range.stop_time, dt)

fragment_list(hours, dt_range, anchor) ==
    Fragments(round_for_cache(Scale(dt_range, cache_margins, anchor), hours),
              timedelta_hours(hours))

\* the grouping test taken with >= where the code has >: a start exactly
\* 1.01 durations after the last one joins its run
RECURSIVE GroupFromInclusive(_, _, _, _)
GroupFromInclusive(fragments, i, duration, merged) ==
    IF i > Len(fragments) THEN merged
    ELSE GroupFromInclusive(fragments, i + 1, duration,
            IF 100 * LastOf(LastOf(merged)) + 101 * duration >= 100 * fragments[i]
            THEN [merged EXCEPT ![Len(merged)] = Append(@, fragments[i])]
            ELSE Append(merged, <<fragments[i]>>))

\* merged[-1][-1] + duration * 1.01 > fragment, in hundredths
RECURSIVE GroupFrom(_, _, _, _)
GroupFrom(fragments, i, duration, merged) ==
    IF i > Len(fragments) THEN merged
    ELSE GroupFrom(fragments, i + 1, duration,
            IF 100 * LastOf(LastOf(merged)) + 101 * duration > 100 * fragments[i]
            THEN [merged EXCEPT ![Len(merged)] = Append(@, fragments[i])]
            ELSE Append(merged, <<fragments[i]>>))

group_contiguous_fragments(fragments, duration) ==
    IF Len(fragments) = 0 THEN <<>>
    ELSE GroupFrom(fragments, 2, duration, <<<<fragments[1]>>>>)

-----------------------------------------------------------------------------
(* Cache keys and entries                                                   *)

\* datetime.isoformat(): the date and time fields of the fragment start
isoformat(dt) == <<dt \div MinutesPerDay, HourOf(dt), dt % MinutesPerHour>>

NoKwargs == [k \in {} |-> ""]

\* kwargs.get(name, default)
KwGet(kwargs, name, default) == IF name \in DOMAIN kwargs THEN kwargs[name] ELSE default

default_cache_entry_name(prefix, product, start_time, kwargs) ==
    <<prefix, product, start_time>>

\* ssc's _make_cache_entry_name
make_cache_entry_name(prefix, product, start_time, kwargs) ==
    <<prefix, product, KwGet(kwargs, "coordinate_system", "gse"), start_time>>

entry_name(prefix, product, start_time, kwargs) ==
    IF naming = "ssc"
    THEN make_cache_entry_name(prefix, product, start_time, kwargs)
    ELSE default_cache_entry_name(prefix, product, start_time, kwargs)

Prefix == "ssc_orbits"
Product == "mms1"

CacheItem(data, version) == [data |-> data, version |-> version]

\* the version test taken with > where the code has >=
is_up_to_date_strict(item, version) == (item.version = NoVersion) \/ (item.version > version)

is_up_to_date(item, version) == (item.version = NoVersion) \/ (item.version >= version)

\* self.cache[key] = entry
CachePut(c, key, entry) ==
    [k \in (DOMAIN c) \cup {key} |-> IF k = key THEN entry ELSE c[k]]

set_cache_entry(c, fragment, product, entry, kwargs) ==
    CachePut(c, entry_name(Prefix, product, isoformat(fragment), kwargs), entry)

CacheGet(c, key) == IF key \in DOMAIN c THEN c[key] ELSE NoneVal

get_cache_entry(c, fragment, product, kwargs) ==
    CacheGet(c, entry_name(Prefix, product, isoformat(fragment), kwargs))

DataIfUpToDate(entry, version) ==
    IF entry # NoneVal /\ is_up_to_date(entry, version) THEN entry.data ELSE NoneVal

get_from_cache(c, fragment, product, version, kwargs) ==
    DataIfUpToDate(get_cache_entry(c, fragment, product, kwargs), version)

\* add_to_cache's loop: set_cache_entry is called without the lookup's kwargs
RECURSIVE AddFragments(_, _, _, _, _, _, _)
AddFragments(c, variable, fragments, i, product, fragment_duration_hours, version) ==
    IF i > Len(fragments) THEN c
    ELSE AddFragments(
            set_cache_entry(c, fragments[i], product,
                CacheItem(getitem(variable, fragments[i],
                                  fragments[i] + timedelta_hours(fragment_duration_hours)),
                          version),
                NoKwargs),
            variable, fragments, i + 1, product, fragment_duration_hours, version)

add_to_cache(c, variable, fragments, product, fragment_duration_hours, version) ==
    IF variable # NoneVal
    THEN AddFragments(c, variable, fragments, 1, product, fragment_duration_hours, version)
    ELSE c

get_fragments_from_cache(c, fragments, product, version, kwargs) ==
    AsList([i \in 1..Len(fragments) |-> get_from_cache(c, fragments[i], product, version, kwargs)])

get_cache_entries(c, fragments, product, kwargs) ==
    AsList([i \in 1..Len(fragments) |-> get_cache_entry(c, fragments[i], product, kwargs)])

-----------------------------------------------------------------------------
(* Fetch collaborator (the wrapped get_data): what it may answer            *)

Columns == <<"X", "Y", "Z">>

\* the provider holds one sample every six hours
SampleStep == 6 * MinutesPerHour

\* the provider's samples with start <= t < stop; gen is the generation of
\* the provider's data, which stamps the values and the metadata
SamplesFrom(first, n, gen) ==
    SpeasyVariable(Arange(first, SampleStep, n), AsList([i \in 1..n |-> gen]), gen, Columns)

SamplesIn(first, stop, gen) ==
    SamplesFrom(first, IF stop > first THEN CeilDiv(stop - first, SampleStep) ELSE 0, gen)

Samples(start, stop, gen) == SamplesIn(CeilDiv(start, SampleStep) * SampleStep, stop, gen)

\* "none": no data; "empty": a series without samples; "exact": the samples
\* of the asked window; "wide": those plus some before and after it;
\* "raise": the call fails with an exception
RespKinds == {"none", "empty", "wide", "raise"}

\* the provider's data follow the product version (Cacheable) or the time
\* of the request (UnversionedProviderCache)
Generation == IF mode = "versioned" THEN productVersion ELSE now

get_data(kind, start_time, stop_time) ==
    CASE kind = "none"  -> NoneVal
      [] kind = "empty" -> SpeasyVariable(<<>>, <<>>, Generation, Columns)
      [] kind = "exact" -> Samples(start_time, stop_time, Generation)
      [] kind = "wide"  -> Samples(start_time - SampleStep, stop_time + SampleStep, Generation)
      [] kind = "raise" -> FetchError

Call(start_time, stop_time, group, if_newer_than, ret) ==
    [start_time |-> start_time, stop_time |-> stop_time, group |-> group,
     if_newer_than |-> if_newer_than, ret |-> ret]

-----------------------------------------------------------------------------
(* Cacheable.__call__.wrapped                                               *)

\* ssc: fragment_hours=lambda x: 24
fragment_hours(product) == 24

\* [fragment for f_data, fragment in zip(data_chunks, fragments) if f_data is None]
RECURSIVE MissingOf(_, _, _)
MissingOf(data_chunks, fragments, i) ==
    IF i > Len(fragments) THEN <<>>
    ELSE (IF data_chunks[i] = NoneVal THEN <<fragments[i]>> ELSE <<>>)
         \o MissingOf(data_chunks, fragments, i + 1)

\* what the loop over the groups leaves: the cache, the calls made, and
\* the exception that ended it (None when it ran to its end)
Fetched(c, calls, raised) == [cache |-> c, calls |-> calls, raised |-> raised]

PutCall(call, rest) == Fetched(rest.cache, <<call>> \o rest.calls, rest.raised)

RECURSIVE FetchGroups(_, _, _, _, _, _)

\* a fetch loop that, when get_data raises, stores the run's fragments as
\* series without samples before the exception leaves
FetchGroupStoring(c, groups, i, resp, hours, version, fragment_group, ret) ==
    IF IsError(ret)
    THEN Fetched(add_to_cache(c, SpeasyVariable(<<>>, <<>>, Generation, Columns),
                              fragment_group, Product, hours, version),
                 <<Call(fragment_group[1], LastOf(fragment_group) + timedelta_hours(hours),
                        fragment_group, NoVersion, ret)>>,
                 ret)
    ELSE PutCall(Call(fragment_group[1], LastOf(fragment_group) + timedelta_hours(hours),
                      fragment_group, NoVersion, ret),
                 FetchGroups(add_to_cache(c, ret, fragment_group, Product, hours, version),
                             groups, i + 1, resp, hours, version))

\* the comprehension over missing_fragments: one get_data and one
\* add_to_cache per group, in order; an exception raised by get_data ends
\* the comprehension, what the earlier groups stored stays
FetchGroup(c, groups, i, resp, hours, version, fragment_group, ret) ==
    IF IsError(ret)
    THEN Fetched(c,
                 <<Call(fragment_group[1], LastOf(fragment_group) + timedelta_hours(hours),
                        fragment_group, NoVersion, ret)>>,
                 ret)
    ELSE PutCall(Call(fragment_group[1], LastOf(fragment_group) + timedelta_hours(hours),
                      fragment_group, NoVersion, ret),
                 FetchGroups(add_to_cache(c, ret, fragment_group, Product, hours, version),
                             groups, i + 1, resp, hours, version))

FetchGroups(c, groups, i, resp, hours, version) ==
    IF i > Len(groups) THEN Fetched(c, <<>>, NoneVal)
    ELSE FetchGroup(c, groups, i, resp, hours, version, groups[i],
                    get_data(resp[i], groups[i][1],
                             LastOf(groups[i]) + timedelta_hours(hours)))

Rets(calls) == AsList([i \in 1..Len(calls) |-> calls[i].ret])

NotNone(v) == v # NoneVal /\ ~IsError(v)

Trimmed(merged, dt_range) ==
    IF IsError(merged) THEN merged
    ELSE getitem(merged, dt_range.start_time, dt_range.stop_time)

\* merge_variables(data_chunks)[start_time:stop_time], or None
Assemble(data_chunks, dt_range) ==
    IF Len(data_chunks) > 0 THEN Trimmed(merge(data_chunks), dt_range) ELSE NoneVal

\* what one lookup did: its arguments, the fragments it planned, the entries
\* stored under their keys when it read them, what the read gave, the calls
\* to get_data in order, the chunks it merged, and how it ended
Trace(kind, dt_range, kwargs, disabled, version, fragments, read, calls, data_chunks, ret) ==
    [seq |-> last.seq + 1, kind |-> kind, dt_range |-> dt_range, kwargs |-> kwargs,
     disabled |-> disabled, version |-> version, fragments |-> fragments,
     found |-> get_cache_entries(cache, fragments, Product, kwargs),
     read |-> read, calls |-> calls, data_chunks |-> data_chunks,
     status |-> IF IsError(ret) THEN ret.err ELSE "returned",
     result |-> IF IsError(ret) THEN NoneVal ELSE ret]

\* the groups of missing fragments a lookup would fetch
MissingGroups(fragments, read, hours) ==
    group_contiguous_fragments(MissingOf(read, fragments, 1), timedelta_hours(hours))

PlannedFor(c, fragments, kwargs, hours) ==
    MissingGroups(fragments,
                  get_fragments_from_cache(c, fragments, Product, productVersion, kwargs),
                  hours)

PlannedGroups(c, dt_range, kwargs, anchor) ==
    PlannedFor(c, fragment_list(fragment_hours(Product), dt_range, anchor), kwargs,
               fragment_hours(Product))

\* a disable_cache branch that stores what it fetched
DisabledStoring(kind, dt_range, kwargs, ret) ==
    /\ last' = Trace(kind, dt_range, kwargs, TRUE, NoVersion, <<>>, <<>>,
                     <<Call(dt_range.start_time, dt_range.stop_time, <<>>, NoVersion, ret)>>,
                     <<>>, ret)
    /\ cache' = add_to_cache(cache, ret, <<DayStart(dt_range.start_time)>>, Product, 24,
                             productVersion)
    /\ UNCHANGED <<setup, productVersion, now>>

\* the disable_cache branch of both decorators: one get_data over the
\* caller's range, returned as it is
Disabled(kind, dt_range, kwargs, ret) ==
    /\ last' = Trace(kind, dt_range, kwargs, TRUE, NoVersion, <<>>, <<>>,
                     <<Call(dt_range.start_time, dt_range.stop_time, <<>>, NoVersion, ret)>>,
                     <<>>, ret)
    /\ UNCHANGED <<setup, cache, productVersion, now>>

\* the disable_cache branch
CacheableDisabled(dt_range, kwargs, kind) ==
    /\ mode = "versioned"
    /\ Disabled("versioned", dt_range, kwargs,
                get_data(kind, dt_range.start_time, dt_range.stop_time))

CacheableDone(dt_range, kwargs, version, fragments, read, calls, data_chunks, raised) ==
    last' = Trace("versioned", dt_range, kwargs, FALSE, version, fragments, read,
                  calls, data_chunks,
                  IF raised # NoneVal THEN raised ELSE Assemble(data_chunks, dt_range))

CacheableFetched(dt_range, kwargs, version, fragments, read, fetched) ==
    /\ cache' = fetched.cache
    /\ CacheableDone(dt_range, kwargs, version, fragments, read, fetched.calls,
                     read \o SelectSeq(Rets(fetched.calls), NotNone), fetched.raised)

CacheableRead(dt_range, kwargs, resp, version, hours, fragments, read) ==
    CacheableFetched(dt_range, kwargs, version, fragments, read,
                     FetchGroups(cache, MissingGroups(fragments, read, hours), 1, resp,
                                 hours, version))

CacheablePlanned(dt_range, kwargs, resp, version, hours, fragments) ==
    CacheableRead(dt_range, kwargs, resp, version, hours, fragments,
                  get_fragments_from_cache(cache, fragments, Product, version, kwargs))

\* the cached branch
CacheableLookup(dt_range, kwargs, anchor, resp) ==
    /\ mode = "versioned"
    /\ CacheablePlanned(dt_range, kwargs, resp, productVersion, fragment_hours(Product),
                        fragment_list(fragment_hours(Product), dt_range, anchor))
    /\ UNCHANGED <<setup, productVersion, now>>

-----------------------------------------------------------------------------
(* UnversionedProviderCache.__call__.wrapped                                *)

\* cache_retention=timedelta(days=14), in hours
cache_retention == 14 * 24

\* datetime.utcnow() and datetime.now()
utcnow == now
localnow == now + tz

\* the freshness test taken with >= where the code has >
IsFreshInclusive(entry) == (entry.version + cache_retention) >= utcnow

IsFresh(entry) == (entry.version + cache_retention) > utcnow

\* the classification loop over zip(fragments, entries)
RECURSIVE MissingEntries(_, _, _)
MissingEntries(fragments, entries, i) ==
    IF i > Len(fragments) THEN <<>>
    ELSE (IF entries[i] = NoneVal THEN <<fragments[i]>> ELSE <<>>)
         \o MissingEntries(fragments, entries, i + 1)

RECURSIVE FreshData(_, _)
FreshData(entries, i) ==
    IF i > Len(entries) THEN <<>>
    ELSE (IF entries[i] # NoneVal /\ IsFresh(entries[i]) THEN <<entries[i].data>> ELSE <<>>)
         \o FreshData(entries, i + 1)

RECURSIVE MaybeOutdated(_, _, _)
MaybeOutdated(fragments, entries, i) ==
    IF i > Len(fragments) THEN <<>>
    ELSE (IF entries[i] # NoneVal /\ ~IsFresh(entries[i])
          THEN <<[fragment |-> fragments[i], entry |-> entries[i]]>> ELSE <<>>)
         \o MaybeOutdated(fragments, entries, i + 1)

Checked(c, calls, chunks, raised) ==
    [cache |-> c, calls |-> calls, chunks |-> chunks, raised |-> raised]

Bumped(call, data, rest) ==
    Checked(rest.cache, <<call>> \o rest.calls, <<data>> \o rest.chunks, rest.raised)

\* the loop over maybe_outdated_fragments. An exception raised by get_data
\* ends it. A revalidation that brings data hands the single fragment (a
\* datetime) to add_to_cache as its fragment list, and iterating it raises
\* TypeError
RECURSIVE Revalidate(_, _, _, _, _)
RevalidateOne(c, outdated, i, resp, hours, fragment, entry, data) ==
    IF IsError(data)
    THEN Checked(c, <<Call(fragment, fragment + timedelta_hours(hours), <<fragment>>,
                           entry.version, data)>>, <<>>, data)
    ELSE IF data = NoneVal
    THEN Bumped(Call(fragment, fragment + timedelta_hours(hours), <<fragment>>,
                     entry.version, data),
                entry.data,
                Revalidate(set_cache_entry(c, fragment, Product,
                                           [entry EXCEPT !.version = utcnow], NoKwargs),
                           outdated, i + 1, resp, hours))
    ELSE Checked(c, <<Call(fragment, fragment + timedelta_hours(hours), <<fragment>>,
                           entry.version, data)>>, <<>>, TypeError)

Revalidate(c, outdated, i, resp, hours) ==
    IF i > Len(outdated) THEN Checked(c, <<>>, <<>>, NoneVal)
    ELSE RevalidateOne(c, outdated, i, resp, hours, outdated[i].fragment, outdated[i].entry,
                       get_data(resp[i], outdated[i].fragment,
                                outdated[i].fragment + timedelta_hours(hours)))

\* the disable_cache branch
UnversionedDisabled(dt_range, kwargs, kind) ==
    /\ mode = "retention"
    /\ Disabled("retention", dt_range, kwargs,
                get_data(kind, dt_range.start_time, dt_range.stop_time))

UnversionedDone(dt_range, kwargs, fragments, entries, calls, data_chunks, raised) ==
    last' = Trace("retention", dt_range, kwargs, FALSE, localnow, fragments, entries,
                  calls, data_chunks,
                  IF raised # NoneVal THEN raised ELSE Assemble(data_chunks, dt_range))

\* a lookup that revalidates before it fetches the missing runs
UnversionedCheckedFirst(dt_range, kwargs, fragments, entries, fetched_calls, checked) ==
    /\ cache' = checked.cache
    /\ UnversionedDone(dt_range, kwargs, fragments, entries,
                       checked.calls \o fetched_calls,
                       FreshData(entries, 1) \o checked.chunks
                           \o SelectSeq(Rets(fetched_calls), NotNone),
                       checked.raised)

UnversionedChecked(dt_range, kwargs, fragments, entries, fetched_calls, checked) ==
    /\ cache' = checked.cache
    /\ UnversionedDone(dt_range, kwargs, fragments, entries,
                       fetched_calls \o checked.calls,
                       FreshData(entries, 1) \o SelectSeq(Rets(fetched_calls), NotNone)
                           \o checked.chunks,
                       checked.raised)

UnversionedFetched(dt_range, kwargs, reval, hours, fragments, entries, fetched) ==
    UnversionedChecked(dt_range, kwargs, fragments, entries, fetched.calls,
                       IF fetched.raised # NoneVal
                       THEN Checked(fetched.cache, <<>>, <<>>, fetched.raised)
                       ELSE Revalidate(fetched.cache, MaybeOutdated(fragments, entries, 1),
                                       1, reval, hours))

UnversionedRead(dt_range, kwargs, resp, reval, hours, fragments, entries) ==
    UnversionedFetched(dt_range, kwargs, reval, hours, fragments, entries,
                       FetchGroups(cache,
                                   group_contiguous_fragments(
                                       MissingEntries(fragments, entries, 1),
                                       timedelta_hours(hours)),
                                   1, resp, hours, localnow))

UnversionedPlanned(dt_range, kwargs, resp, reval, hours, fragments) ==
    UnversionedRead(dt_range, kwargs, resp, reval, hours, fragments,
                    get_cache_entries(cache, fragments, Product, kwargs))

\* the cached branch
UnversionedLookup(dt_range, kwargs, anchor, resp, reval) ==
    /\ mode = "retention"
    /\ UnversionedPlanned(dt_range, kwargs, resp, reval, fragment_hours(Product),
                          fragment_list(fragment_hours(Product), dt_range, anchor))
    /\ UNCHANGED <<setup, productVersion, now>>

\* how many missing groups and how many maybe-outdated fragments a lookup has
CountsOf(fragments, entries, hours) ==
    <<Len(group_contiguous_fragments(MissingEntries(fragments, entries, 1),
                                     timedelta_hours(hours))),
      Len(MaybeOutdated(fragments, entries, 1))>>

CountsFor(c, fragments, kwargs, hours) ==
    CountsOf(fragments, get_cache_entries(c, fragments, Product, kwargs), hours)

UnversionedCounts(c, dt_range, kwargs, anchor) ==
    CountsFor(c, fragment_list(fragment_hours(Product), dt_range, anchor), kwargs,
              fragment_hours(Product))

-----------------------------------------------------------------------------
(* Environment                                                              *)

MaxVersion == 1
MaxTicks == 2
MaxLookups == 2

\* the version function starts returning a higher version
BumpVersion ==
    /\ mode = "versioned"
    /\ productVersion < MaxVersion
    /\ productVersion' = productVersion + 1
    /\ UNCHANGED <<setup, cache, now, last>>

ClockStart == 2 * 24
ClockStep == cache_retention \div 2

\* time passes
Tick ==
    /\ mode = "retention"
    /\ now < ClockStart + MaxTicks * ClockStep
    /\ now' = now + ClockStep
    /\ UNCHANGED <<setup, cache, productVersion, last>>

-----------------------------------------------------------------------------
(* Lookups the callers make                                                 *)

Hours(h) == h * MinutesPerHour

FirstDay == DateTimeRange(Hours(1), Hours(10))
SecondDay == DateTimeRange(Hours(34), Hours(42))
ThreeDays == DateTimeRange(Hours(12), Hours(58))

Gsm == [coordinate_system |-> "gsm"]

\* the lookups made through the cache: a window and the pass-through options
Lookups ==
    { <<FirstDay, NoKwargs>>, <<SecondDay, NoKwargs>>, <<ThreeDays, NoKwargs>> }
    \cup (IF naming = "ssc" THEN { <<FirstDay, Gsm>> } ELSE {})

\* the lookups made with disable_cache
DisabledLookups == { <<FirstDay, NoKwargs>> }

NoLookup ==
    [seq |-> 0, kind |-> "none", dt_range |-> DateTimeRange(0, 0), kwargs |-> NoKwargs,
     disabled |-> FALSE, version |-> NoVersion, fragments |-> <<>>, found |-> <<>>,
     read |-> <<>>,
     calls |-> <<>>, data_chunks |-> <<>>, status |-> "returned", result |-> NoneVal]

EmptyCache == [k \in {} |-> NoneVal]

\* the machine's local time is UTC, or two hours ahead of it
Offsets == {0, 2}

Init ==
    /\ mode \in {"versioned", "retention"}
    /\ naming = (IF mode = "versioned" THEN "ssc" ELSE "default")
    /\ scaling \in Anchors
    /\ cache = EmptyCache
    /\ productVersion = IF mode = "versioned" THEN NoVersion ELSE 0
    /\ now = ClockStart
    /\ tz \in (IF mode = "retention" THEN Offsets ELSE {0})
    /\ last = NoLookup
    /\ mIn = <<>>
    /\ mOut = NotCalled
    /\ pIn = NoneVal
    /\ pOut = NotCalled
    /\ reader = NoneVal
    /\ procs = NoneVal

\* what a revalidation may answer
RevalKinds == {"none", "exact", "raise"}

\* the answers to the n calls of a fetch loop: an exception ends the loop,
\* so no answer is drawn for the calls after it
FetchResponses(n) ==
    {r \in [1..n -> RespKinds] :
        \A i \in 1..n : r[i] = "raise" => \A j \in (i + 1)..n : r[j] = "none"}

\* the answers to the n calls of the revalidation loop, which ends at the
\* first answer other than None
RevalResponses(n) ==
    {r \in [1..n -> RevalKinds] :
        \A i \in 1..n : r[i] # "none" => \A j \in (i + 1)..n : r[j] = "none"}

UnversionedAny(dt_range, kwargs, anchor, counts) ==
    \E resp \in FetchResponses(counts[1]) :
        \E reval \in (IF "raise" \in {resp[i] : i \in 1..counts[1]}
                      THEN {[i \in 1..counts[2] |-> "none"]}
                      ELSE RevalResponses(counts[2])) :
            UnversionedLookup(dt_range, kwargs, anchor, resp, reval)

Next ==
    \/ /\ mode = "versioned"
       /\ last.seq < MaxLookups
       /\ \E l \in DisabledLookups, kind \in {"none", "wide"} :
             CacheableDisabled(l[1], l[2], kind)
    \/ /\ mode = "versioned"
       /\ last.seq < MaxLookups
       /\ \E l \in Lookups :
             \E resp \in FetchResponses(Len(PlannedGroups(cache, l[1], l[2], scaling))) :
                CacheableLookup(l[1], l[2], scaling, resp)
    \/ /\ mode = "retention"
       /\ last.seq < MaxLookups
       /\ \E l \in DisabledLookups, kind \in {"none", "wide"} :
             UnversionedDisabled(l[1], l[2], kind)
    \/ /\ mode = "retention"
       /\ last.seq < MaxLookups
       /\ \E l \in Lookups :
             UnversionedAny(l[1], l[2], scaling, UnversionedCounts(cache, l[1], l[2], scaling))
    \/ BumpVersion
    \/ Tick

Spec == Init /\ [][Next]_vars

-----------------------------------------------------------------------------
(* Properties of the lookups                                                *)

\* the last lookup went through the cache of that decorator
Cached(t, kind) == t.seq > 0 /\ t.kind = kind /\ ~t.disabled

\* this step is a lookup
LookupStep == last'.seq = last.seq + 1

\* every call of the lookup brought data
AllFetched(t) == \A i \in 1..Len(t.calls) : NotNone(t.calls[i].ret)

\* this step repeats the last lookup: same decorator, window, options and
\* product version
Repeated ==
    /\ LookupStep
    /\ last.seq > 0
    /\ last'.kind = last.kind
    /\ last'.disabled = last.disabled
    /\ last'.dt_range = last.dt_range
    /\ last'.kwargs = last.kwargs
    /\ last'.version = last.version

\* C1: when a versioned lookup has fetched data for every missing run and
\* returned, and the same lookup is made again with the product version
\* unchanged, the second lookup calls get_data not once and returns a series
\* equal to the first.
C1_Idempotence ==
    [][(Cached(last, "versioned") /\ last.status = "returned" /\ AllFetched(last) /\ Repeated)
          => /\ last'.calls = <<>>
             /\ last'.status = "returned"
             /\ last'.result = last.result]_vars

InWindow(t, dt_range) == dt_range.start_time <= t /\ t < dt_range.stop_time

\* C2: every instant of the series a cached lookup returns, versioned or
\* retention, lies in [start_time, stop_time) of the request.
C2_TrimWindow ==
    (last.seq > 0 /\ ~last.disabled /\ last.status = "returned" /\ last.result # NoneVal)
        => \A k \in 1..Len(last.result.time) : InWindow(last.result.time[k], last.dt_range)

\* a cached lookup returned samples, and the chunks it merged held samples
\* before the window, after it, and one at its stop_time
C2_Witness ==
    /\ last.seq > 0 /\ ~last.disabled /\ last.status = "returned"
    /\ last.result # NoneVal
    /\ Len(last.result.time) > 0
    /\ \E c \in 1..Len(last.data_chunks) :
          /\ last.data_chunks[c] # NoneVal
          /\ \E k \in 1..Len(last.data_chunks[c].time) :
                last.data_chunks[c].time[k] < last.dt_range.start_time
          /\ \E k \in 1..Len(last.data_chunks[c].time) :
                last.data_chunks[c].time[k] > last.dt_range.stop_time
          /\ \E k \in 1..Len(last.data_chunks[c].time) :
                last.data_chunks[c].time[k] = last.dt_range.stop_time

\* C5: a versioned lookup that finds none of its planned fragments in the
\* cache and gets None from get_data for every run returns None; it does not
\* raise.
C5_AbsenceIsNotAnError ==
    (/\ Cached(last, "versioned")
     /\ \A i \in 1..Len(last.read) : last.read[i] = NoneVal
     /\ \A i \in 1..Len(last.calls) : last.calls[i].ret = NoneVal)
        => (last.status = "returned" /\ last.result = NoneVal)

\* C6: with fragment_hours = 24 and cache_margins = 1.2, the versioned lookup
\* over [2021-01-08T01:00, 2021-01-08T10:00) on an empty cache plans the one
\* fragment 2021-01-08T00:00 and makes exactly one get_data call, over
\* [2021-01-08T00:00, 2021-01-09T00:00); the same lookup made again after it
\* fetched data makes no call.
C6_FullDayScenario ==
    [][(LookupStep /\ Cached(last', "versioned")
            /\ last'.dt_range = FirstDay /\ last'.kwargs = NoKwargs)
          => /\ cache = EmptyCache
                    => /\ last'.fragments = <<0>>
                       /\ Len(last'.calls) = 1
                       /\ last'.calls[1].start_time = 0
                       /\ last'.calls[1].stop_time = MinutesPerDay
             /\ (Repeated /\ last.calls # <<>> /\ AllFetched(last))
                    => last'.calls = <<>>]_vars

\* C7: a lookup with disable_cache, versioned or retention, reads nothing
\* from the cache and writes nothing to it, calls get_data exactly once over
\* the caller's [start_time, stop_time] and returns what that call returned.
C7_DisableCache ==
    [][(LookupStep /\ last'.disabled)
          => /\ cache' = cache
             /\ last'.fragments = <<>>
             /\ last'.read = <<>>
             /\ Len(last'.calls) = 1
             /\ last'.calls[1].start_time = last'.dt_range.start_time
             /\ last'.calls[1].stop_time = last'.dt_range.stop_time
             /\ last'.status = "returned"
             /\ last'.result = last'.calls[1].ret]_vars

\* a disable_cache lookup was made on a cache holding entries, and it
\* returned samples outside its window
C7_Witness ==
    /\ last.seq > 0 /\ last.disabled
    /\ cache # EmptyCache
    /\ last.result # NoneVal
    /\ \E k \in 1..Len(last.result.time) : ~InWindow(last.result.time[k], last.dt_range)

\* the calls of a lookup that revalidate fragment f
Revalidations(t, f) ==
    {i \in 1..Len(t.calls) : t.calls[i].start_time = f /\ t.calls[i].if_newer_than # NoVersion}

\* fragment f has an entry older than the retention when the lookup starts
MaybeStale(c, f, kwargs) ==
    /\ get_cache_entry(c, f, Product, kwargs) # NoneVal
    /\ now - get_cache_entry(c, f, Product, kwargs).version >= cache_retention

InChunks(t, data) == \E k \in 1..Len(t.data_chunks) : t.data_chunks[k] = data

\* C8: in a retention lookup at time now, every entry older than the
\* retention whose revalidation returns None is stored after the lookup with
\* version now and the payload it had, and that payload is one of the chunks
\* of the merged result the lookup returns.
C8_RetentionBump ==
    [][(LookupStep /\ Cached(last', "retention"))
          => \A i \in 1..Len(last'.fragments) :
                (/\ MaybeStale(cache, last'.fragments[i], last'.kwargs)
                 /\ \E r \in Revalidations(last', last'.fragments[i]) :
                       last'.calls[r].ret = NoneVal)
                    => /\ get_cache_entry(cache', last'.fragments[i], Product, last'.kwargs)
                            = CacheItem(
                                get_cache_entry(cache, last'.fragments[i], Product,
                                                last'.kwargs).data,
                                now)
                       /\ last'.status = "returned"
                       /\ InChunks(last',
                                   get_cache_entry(cache, last'.fragments[i], Product,
                                                   last'.kwargs).data)]_vars

\* C9: in a retention lookup, when the revalidation of an entry older than
\* the retention brings data, the lookup returns, the entry of that fragment
\* holds the new data under a new version, and the new data is one of the
\* chunks of the merged result.
C9_RevalidationWithNewData ==
    [][(LookupStep /\ Cached(last', "retention"))
          => \A i \in 1..Len(last'.fragments) :
                \A r \in Revalidations(last', last'.fragments[i]) :
                    (/\ MaybeStale(cache, last'.fragments[i], last'.kwargs)
                     /\ last'.calls[r].ret # NoneVal)
                        => /\ last'.status = "returned"
                           /\ get_cache_entry(cache', last'.fragments[i], Product,
                                              last'.kwargs).data
                                = getitem(last'.calls[r].ret, last'.calls[r].start_time,
                                          last'.calls[r].stop_time)
                           /\ get_cache_entry(cache', last'.fragments[i], Product,
                                              last'.kwargs).version
                                > get_cache_entry(cache, last'.fragments[i], Product,
                                                  last'.kwargs).version
                           /\ InChunks(last', last'.calls[r].ret)]_vars

\* the key of a planned fragment, read with the lookup's options
KeyOf(t, i) == entry_name(Prefix, Product, isoformat(t.fragments[i]), t.kwargs)

\* the versioned hit rule, on the store as it is before the lookup
Hit(c, key, version) ==
    /\ key \in DOMAIN c
    /\ (c[key].version = NoVersion \/ c[key].version >= version)

FetchedIn(t, f) ==
    \E j \in 1..Len(t.calls) : \E g \in 1..Len(t.calls[j].group) : t.calls[j].group[g] = f

\* the calls of a lookup in which get_data raised
Raising(t) == {j \in 1..Len(t.calls) : t.calls[j].ret = FetchError}

\* C10: in a versioned lookup a planned fragment is served from the cache
\* exactly when an entry is stored under its key with a version that is None
\* or at least the product's current version; every other planned fragment
\* is missing and, unless a get_data call raises and ends the lookup,
\* belongs to a run that is fetched.
C10_VersionedHitRule ==
    [][(LookupStep /\ Cached(last', "versioned") /\ Raising(last') = {})
          => \A i \in 1..Len(last'.fragments) :
                IF Hit(cache, KeyOf(last', i), productVersion)
                THEN /\ last'.read[i] = cache[KeyOf(last', i)].data
                     /\ ~FetchedIn(last', last'.fragments[i])
                ELSE /\ last'.read[i] = NoneVal
                     /\ FetchedIn(last', last'.fragments[i])]_vars

\* a versioned lookup found an entry whose version is below the product's
\* current version, treated the fragment as missing and fetched it
C10_Witness ==
    /\ Cached(last, "versioned")
    /\ \E i \in 1..Len(last.fragments) :
          /\ last.found[i] # NoneVal
          /\ last.found[i].version # NoVersion
          /\ last.found[i].version < last.version
          /\ last.read[i] = NoneVal
          /\ FetchedIn(last, last.fragments[i])

\* the keys a lookup with these options reads or writes for the fragments
\* of a run
KeysOf(group, kwargs) ==
    {entry_name(Prefix, Product, isoformat(group[g]), kw) :
        g \in 1..Len(group), kw \in {kwargs, NoKwargs}}

\* the keys whose entry is new or not what it was
Changed(before, after) ==
    {k \in DOMAIN after : k \notin DOMAIN before \/ after[k] # before[k]}

\* C12: when get_data raises during the fetch of a run or during a
\* revalidation, the lookup ends with that exception and returns no series,
\* no call follows the failing one, and the only entries the lookup has
\* written are those of the runs and revalidations before the failing one.
C12_FetchFailuresPropagate ==
    [][(LookupStep /\ ~last'.disabled)
          => \A j \in Raising(last') :
                /\ last'.status = FetchError.err
                /\ last'.result = NoneVal
                /\ j = Len(last'.calls)
                /\ DOMAIN cache \subseteq DOMAIN cache'
                /\ \A k \in Changed(cache, cache') :
                      \E e \in 1..(j - 1) : k \in KeysOf(last'.calls[e].group, last'.kwargs)]_vars

\* a lookup stored the data of a first run and get_data raised on a later
\* run
C12_Witness ==
    /\ last.seq > 0 /\ ~last.disabled
    /\ Len(last.calls) >= 2
    /\ NotNone(last.calls[1].ret)
    /\ Len(last.calls[1].ret.time) > 0
    /\ Len(last.calls) \in Raising(last)
    /\ last.status = FetchError.err
    /\ \E g \in 1..Len(LastOf(last.calls).group) :
          \A k \in KeysOf(<<LastOf(last.calls).group[g]>>, last.kwargs) : k \notin DOMAIN cache

\* none of the chunks the lookup collected has a sample in the window
NoSampleInWindow(t) ==
    \A c \in 1..Len(t.data_chunks) :
        NotNone(t.data_chunks[c])
            => \A k \in 1..Len(t.data_chunks[c].time) :
                  ~InWindow(t.data_chunks[c].time[k], t.dt_range)

\* C13: a cached lookup, versioned or retention, whose hits and fetched data
\* hold no sample inside the requested window returns None: neither a
\* series without samples nor an error.
C13_NoDataResult ==
    (last.seq > 0 /\ ~last.disabled /\ Raising(last) = {} /\ NoSampleInWindow(last))
        => (last.status = "returned" /\ last.result = NoneVal)

\* the keys under which a lookup reads its planned fragments
ReadKeys(t) == {KeyOf(t, i) : i \in 1..Len(t.fragments)}

\* C14: whatever the key-naming function and the options, every entry a
\* cached lookup stores (fetched or re-versioned) is stored under the key
\* under which that lookup, and any lookup with the same options, reads the
\* fragment; none is stored under the key of other options.
C14_KeyConsistency ==
    [][(LookupStep /\ ~last'.disabled) => Changed(cache, cache') \subseteq ReadKeys(last')]_vars

\* the calls of a lookup that fetch missing fragments
FetchCalls(t) == {j \in 1..Len(t.calls) : t.calls[j].if_newer_than = NoVersion}

\* the planned fragments the read found missing, and those it found
MissingIn(t) == {t.fragments[i] : i \in {k \in 1..Len(t.fragments) : t.read[k] = NoneVal}}
HitsIn(t) == {t.fragments[i] : i \in {k \in 1..Len(t.fragments) : t.read[k] # NoneVal}}

InCall(call, f) == call.start_time <= f /\ f < call.stop_time

\* the call spans one maximal run of missing fragments of that duration
SpansMaximalRun(t, call, d) ==
    /\ call.start_time < call.stop_time
    /\ call.start_time \in MissingIn(t)
    /\ (call.stop_time - d) \in MissingIn(t)
    /\ (call.start_time - d) \notin MissingIn(t)
    /\ call.stop_time \notin MissingIn(t)
    /\ \A k \in 0..((call.stop_time - call.start_time) \div d) :
          (call.start_time + k * d < call.stop_time)
              => (call.start_time + k * d) \in MissingIn(t)

\* C16: in a cached lookup, whatever the pattern of hits and missing
\* fragments, every call that fetches missing data has start_time < stop_time
\* and spans [run_start, run_end + fragment_duration) of one maximal run of
\* missing fragments; every missing fragment lies in the range of exactly
\* one such call and no hit lies in the range of any.
C16_OneFetchPerMissingRun ==
    (last.seq > 0 /\ ~last.disabled /\ Raising(last) = {})
        => /\ \A j \in FetchCalls(last) :
                 /\ SpansMaximalRun(last, last.calls[j],
                                    timedelta_hours(fragment_hours(Product)))
                 /\ \A f \in HitsIn(last) : ~InCall(last.calls[j], f)
           /\ \A f \in MissingIn(last) :
                 Cardinality({j \in FetchCalls(last) : InCall(last.calls[j], f)}) = 1

\* the key under which a lookup reads fragment f
ReadKey(t, f) == entry_name(Prefix, Product, isoformat(f), t.kwargs)

\* what a lookup's runs leave in the store: the slices of a run fetched
\* with data, under the lookup's version; nothing new for a run without data
WrittenBack ==
    \A j \in 1..Len(last'.calls) : \A g \in 1..Len(last'.calls[j].group) :
        /\ NotNone(last'.calls[j].ret)
              => CacheGet(cache', ReadKey(last', last'.calls[j].group[g]))
                    = CacheItem(
                        getitem(last'.calls[j].ret, last'.calls[j].group[g],
                                last'.calls[j].group[g]
                                    + timedelta_hours(fragment_hours(Product))),
                        last'.version)
        /\ (last'.calls[j].ret = NoneVal)
              => CacheGet(cache', ReadKey(last', last'.calls[j].group[g]))
                    = CacheGet(cache, ReadKey(last', last'.calls[j].group[g]))

\* C21: after a versioned lookup, for every run it fetched with data every
\* fragment f of the run has an entry holding the fetched series restricted
\* to [f, f + fragment_duration), under the version the lookup computed at
\* its start; for every run get_data returned None for, the entries of the
\* run's fragments are what they were before the lookup.
C21_WriteBack ==
    [][(LookupStep /\ Cached(last', "versioned")) => WrittenBack]_vars

\* the classes of the retention lookup, from the entry read for a planned
\* fragment and the time of the lookup
FreshAt(entry, t) == entry # NoneVal /\ t - entry.version < cache_retention
StaleAt(entry, t) == entry # NoneVal /\ t - entry.version >= cache_retention

\* the calls that fetch a run holding fragment f
FetchesOf(t, f) ==
    {j \in FetchCalls(t) : \E g \in 1..Len(t.calls[j].group) : t.calls[j].group[g] = f}

\* what the retention lookup does with planned fragment i, by its class
Classified(t, i) ==
    /\ (t.read[i] = NoneVal)
          => /\ Revalidations(t, t.fragments[i]) = {}
             /\ Raising(t) = {} => FetchesOf(t, t.fragments[i]) # {}
    /\ FreshAt(t.read[i], now)
          => /\ InChunks(t, t.read[i].data)
             /\ FetchesOf(t, t.fragments[i]) = {}
             /\ Revalidations(t, t.fragments[i]) = {}
             /\ \A j \in 1..Len(t.calls) : ~InCall(t.calls[j], t.fragments[i])
             /\ get_cache_entry(cache', t.fragments[i], Product, t.kwargs) = t.read[i]
    /\ StaleAt(t.read[i], now)
          => /\ FetchesOf(t, t.fragments[i]) = {}
             /\ (t.status = "returned") => Revalidations(t, t.fragments[i]) # {}

\* C24: in a retention lookup at time now every planned fragment is missing
\* (no entry: fetched with its run, never revalidated), fresh (now minus the
\* entry's version below the retention: its payload is a chunk of the result,
\* no call is made for it and its entry stays as it was) or maybe-stale (the
\* difference at least the retention: revalidated, never fetched with a run).
C24_RetentionClassification ==
    [][(LookupStep /\ Cached(last', "retention"))
          => \A i \in 1..Len(last'.fragments) : Classified(last', i)]_vars

\* a retention lookup found an entry one step short of the retention and
\* used it, and fetched a missing fragment next to it
C24_Witness ==
    /\ Cached(last, "retention")
    /\ \E i \in 1..Len(last.fragments) :
          /\ last.read[i] # NoneVal
          /\ last.read[i].version + cache_retention > last.version - tz
          /\ last.read[i].version + cache_retention <= last.version - tz + 2
          /\ InChunks(last, last.read[i].data)
          /\ FetchesOf(last, last.fragments[i]) = {}
    /\ \E j \in 1..Len(last.fragments) :
          last.read[j] = NoneVal /\ FetchesOf(last, last.fragments[j]) # {}

\* the planned fragments a retention lookup found maybe-stale
StaleIn(t) ==
    {t.fragments[i] : i \in {k \in 1..Len(t.fragments) : StaleAt(t.read[k], now)}}

\* the version stored for fragment f when the lookup read it
StoredVersion(t, f) ==
    t.read[CHOOSE i \in 1..Len(t.fragments) :
              t.fragments[i] = f /\ t.read[i] # NoneVal].version

\* call j revalidates the single fragment f against its stored version
RevalidatesAlone(t, j, f) ==
    /\ t.calls[j].start_time = f
    /\ t.calls[j].stop_time = f + timedelta_hours(fragment_hours(Product))
    /\ t.calls[j].group = <<f>>
    /\ t.calls[j].if_newer_than = StoredVersion(t, f)

\* C25: in a retention lookup that returns, every maybe-stale fragment f has
\* exactly one call, over [f, f + fragment_duration) and carrying
\* if_newer_than = the version stored for f; every call that carries
\* if_newer_than is such a call for one maybe-stale fragment, and no call
\* for a run of missing fragments carries if_newer_than.
C25_IndividualRevalidation ==
    [][(LookupStep /\ Cached(last', "retention") /\ last'.status = "returned")
          => /\ \A f \in StaleIn(last') :
                   /\ Cardinality({j \in 1..Len(last'.calls) : InCall(last'.calls[j], f)}) = 1
                   /\ \A j \in 1..Len(last'.calls) :
                         InCall(last'.calls[j], f) => RevalidatesAlone(last', j, f)
             /\ \A j \in 1..Len(last'.calls) :
                   IF last'.calls[j].start_time \in StaleIn(last')
                   THEN RevalidatesAlone(last', j, last'.calls[j].start_time)
                   ELSE last'.calls[j].if_newer_than = NoVersion]_vars

\* the keys of the planned fragments a versioned lookup found missing and
\* fetched with a run
FetchedKeys(t) == {ReadKey(t, f) : f \in {m \in MissingIn(t) : FetchedIn(t, m)}}

\* C28: no step removes a key from the store; a versioned lookup writes only
\* under the keys of planned fragments it found missing and fetched; a
\* lookup of either decorator leaves every key outside its planned fragments
\* as it was.
C28_CacheFrame ==
    [][/\ DOMAIN cache \subseteq DOMAIN cache'
       /\ (LookupStep /\ Cached(last', "versioned"))
             => Changed(cache, cache') \subseteq FetchedKeys(last')
       /\ LookupStep => Changed(cache, cache') \subseteq ReadKeys(last')]_vars

\* C29: every entry a retention lookup stores or re-versions carries, as its
\* version, the time of the lookup on the clock of the freshness test (UTC),
\* whatever the offset of local time; so a fragment stored at t is fresh
\* exactly for the lookups at t' with t <= t' < t + retention.
C29_OneStalenessClock ==
    [][(LookupStep /\ Cached(last', "retention"))
          => /\ \A k \in Changed(cache, cache') : cache'[k].version = utcnow
             /\ \A i \in 1..Len(last'.fragments) :
                   (last'.read[i] # NoneVal /\ last'.status = "returned")
                       => (InChunks(last', last'.read[i].data)
                             /\ Revalidations(last', last'.fragments[i]) = {})
                            <=> (utcnow < last'.read[i].version + cache_retention)]_vars

\* what the read of planned fragment i gives on the store as it is before
\* the lookup
ReadBefore(t, i) ==
    IF t.kind = "versioned"
    THEN (IF Hit(cache, KeyOf(t, i), t.version) THEN cache[KeyOf(t, i)].data ELSE NoneVal)
    ELSE CacheGet(cache, KeyOf(t, i))

\* the slice of fragment f that call e stored
SliceOf(t, e, f) ==
    CacheItem(getitem(t.calls[e].ret, f, f + timedelta_hours(fragment_hours(Product))),
              t.version)

\* call e is a fetch of a run that brought data before call j
StoredBefore(t, e, j) == e < j /\ e \in FetchCalls(t) /\ NotNone(t.calls[e].ret)

\* fragment f of a run stored before call j still has an entry after the
\* lookup, the slice a run before j stored for it
StaysStored(t, f, j) ==
    \E k \in KeysOf(<<f>>, t.kwargs) :
        /\ k \in DOMAIN cache'
        /\ \E e \in 1..Len(t.calls) :
              /\ StoredBefore(t, e, j)
              /\ \E g \in 1..Len(t.calls[e].group) : t.calls[e].group[g] = f
              /\ cache'[k] = SliceOf(t, e, f)

\* C30: in a cached lookup every read is made on the store as it is before
\* the first call; when call j raises, every fragment of every run fetched
\* with data before j has its entry stored after the lookup and no call
\* follows j; in the retention lookup every fetch of a missing run comes
\* before every revalidation.
C30_SequentialOrder ==
    [][(LookupStep /\ ~last'.disabled)
          => /\ \A i \in 1..Len(last'.fragments) : last'.read[i] = ReadBefore(last', i)
             /\ \A j \in Raising(last') :
                   /\ j = Len(last'.calls)
                   /\ \A e \in 1..Len(last'.calls) :
                         StoredBefore(last', e, j)
                             => \A g \in 1..Len(last'.calls[e].group) :
                                   StaysStored(last', last'.calls[e].group[g], j)
             /\ \A i \in FetchCalls(last') :
                   \A j \in (1..Len(last'.calls)) \ FetchCalls(last') : i < j]_vars

\* a retention lookup fetched a missing run with data, stored it, and then
\* get_data raised on the revalidation of a maybe-stale fragment
C30_Witness ==
    /\ Cached(last, "retention")
    /\ Len(last.calls) >= 2
    /\ StoredBefore(last, 1, Len(last.calls))
    /\ Len(last.calls[1].ret.time) > 0
    /\ Len(last.calls) \in Raising(last)
    /\ LastOf(last.calls).if_newer_than # NoVersion
    /\ \A g \in 1..Len(last.calls[1].group) :
          \E k \in KeysOf(<<last.calls[1].group[g]>>, last.kwargs) : k \in DOMAIN cache

-----------------------------------------------------------------------------
(* merge() called on its own                                                *)

MaxTime == 4
MaxFragments == 3

\* a series of n samples, one at each instant from first on; every value row
\* carries the tag of the series and the instant it belongs to
Run(first, n, tag) ==
    SpeasyVariable(AsList([i \in 1..n |-> first + i - 1]),
                   AsList([i \in 1..n |-> <<tag, first + i - 1>>]),
                   tag, Columns)

\* what one element of the list can be: None, a series without samples, or
\* a run of samples
Shapes ==
    {<<"none", 0, 0>>, <<"empty", 0, 0>>}
        \cup {<<"run", r[1], r[2]>> : r \in {p \in (0..(MaxTime - 1)) \X (0..(MaxTime - 1)) : p[1] <= p[2]}}

\* the element of that shape at place i of the list, tagged with its place
Element(shape, i) ==
    CASE shape[1] = "none"  -> NoneVal
      [] shape[1] = "empty" -> SpeasyVariable(<<>>, <<>>, i, Columns)
      [] shape[1] = "run"   -> Run(shape[2], shape[3] - shape[2] + 1, i)

ListOf(shapes) == AsList([i \in 1..Len(shapes) |-> Element(shapes[i], i)])

MergeInputs == UNION {[1..n -> Shapes] : n \in 0..MaxFragments}

InitMerge ==
    /\ mode = "merge"
    /\ naming = "default"
    /\ scaling = "start"
    /\ cache = EmptyCache
    /\ productVersion = 0
    /\ now = ClockStart
    /\ tz = 0
    /\ last = NoLookup
    /\ mIn \in {ListOf(shapes) : shapes \in MergeInputs}
    /\ mOut = NotCalled
    /\ pIn = NoneVal
    /\ pOut = NotCalled
    /\ reader = NoneVal
    /\ procs = NoneVal

MergeCall ==
    /\ mode = "merge"
    /\ mOut = NotCalled
    /\ mOut' = merge(mIn)
    /\ UNCHANGED <<mode, naming, scaling, cache, productVersion, now, tz, last, mIn,
                   pIn, pOut, reader, procs>>

NextMerge == MergeCall

SpecMerge == InitMerge /\ [][NextMerge]_vars

-----------------------------------------------------------------------------
(* Properties of merge                                                      *)

Returned(v) == v # NotCalled /\ v # NoneVal /\ ~IsError(v)

\* the instants of a series, and how often an instant occurs in it
Instants(v) == {v.time[k] : k \in 1..Len(v.time)}
Occurrences(v, t) == Cardinality({k \in 1..Len(v.time) : v.time[k] = t})

\* the instants present in the usable elements of a list
InstantsOf(variables) ==
    UNION {Instants(variables[i]) : i \in {j \in 1..Len(variables) : IsUsable(variables[j])}}

\* C3: whatever the fragments handed to merge, and whatever the window
\* [a, b), the merged series trimmed to the window holds every instant of the
\* window that some input holds, and holds it once.
C3_CoverageWithoutDuplication ==
    Returned(mOut) =>
        \A a \in 0..MaxTime : \A b \in a..MaxTime :
            \A t \in InstantsOf(mIn) \cap (a..(b - 1)) :
                Occurrences(getitem(mOut, a, b), t) = 1

\* the usable elements of the list, in the order given
UsableOf(variables) == SelectSeq(variables, IsUsable)

\* two overlapping fragments, the second starting and ending later
LaterOverlapping(A, B) ==
    /\ B.time[1] > A.time[1]
    /\ LastOf(B.time) > LastOf(A.time)
    /\ LastOf(A.time) >= B.time[1]

\* how many samples of A come before the first instant of B
Before(A, B) == Cardinality({k \in 1..Len(A.time) : A.time[k] < B.time[1]})

\* A's samples before B's first instant, then all of B's
Precedence(out, A, B) ==
    /\ out.time = SubSeq(A.time, 1, Before(A, B)) \o B.time
    /\ out.values = SubSeq(A.values, 1, Before(A, B)) \o B.values
    /\ \A k \in 1..Len(out.time) :
          out.values[k][1] = A.meta => out.time[k] < B.time[1]

PairPrecedence(out, pair) ==
    /\ LaterOverlapping(pair[1], pair[2]) => Precedence(out, pair[1], pair[2])
    /\ LaterOverlapping(pair[2], pair[1]) => Precedence(out, pair[2], pair[1])

\* C4: when the list holds two overlapping fragments A and B, B starting and
\* ending later than A, the merged series is A's samples before B's first
\* instant followed by all of B's samples; no sample of A at or after B's
\* first instant is in it.
C4_MergePrecedence ==
    (mOut # NotCalled /\ Len(UsableOf(mIn)) = 2) =>
        /\ Returned(mOut)
        /\ PairPrecedence(mOut, UsableOf(mIn))

\* merge was called on two overlapping fragments and A had samples at or
\* after B's first instant to lose
C4_Witness ==
    /\ mOut # NotCalled
    /\ Len(mIn) = 2
    /\ Len(UsableOf(mIn)) = 2
    /\ LaterOverlapping(mIn[2], mIn[1])
    /\ Before(mIn[2], mIn[1]) >= 1
    /\ Before(mIn[2], mIn[1]) + 1 < Len(mIn[2].time)

\* C26: for a list that is not empty and whose elements are all None or
\* without samples, merge returns a series without samples; it returns
\* neither None nor an exception, also when the first element is None, and
\* when the first element is a series the result has its columns and
\* metadata.
C26_MergeOfNothingUsable ==
    (mOut # NotCalled /\ Len(mIn) > 0 /\ UsableOf(mIn) = <<>>)
        => /\ Returned(mOut)
           /\ mOut.time = <<>>
           /\ mOut.values = <<>>
           /\ mIn[1] # NoneVal
                 => (mOut.columns = mIn[1].columns /\ mOut.meta = mIn[1].meta)

\* sample k of the series is sample j of that element: time and value row
SampleOf(out, k, v) ==
    /\ v # NoneVal
    /\ \E j \in 1..Len(v.time) : v.time[j] = out.time[k] /\ v.values[j] = out.values[k]

\* C27: the timestamps of the series merge returns are strictly increasing,
\* and every sample of it is a sample of some element of the list, its time
\* and its value row together.
C27_StrictlyOrdered ==
    Returned(mOut)
        => /\ \A k \in 1..(Len(mOut.time) - 1) : mOut.time[k] < mOut.time[k + 1]
           /\ Len(mOut.values) = Len(mOut.time)
           /\ \A k \in 1..Len(mOut.time) :
                 \E i \in 1..Len(mIn) : SampleOf(mOut, k, mIn[i])

\* merge joined three usable fragments, each overlapping the next, and the
\* result has samples of all three
C27_Witness ==
    /\ Returned(mOut)
    /\ Len(mIn) = 3
    /\ Len(UsableOf(mIn)) = 3
    /\ \A i \in 1..3 : \E k \in 1..Len(mOut.time) : mOut.values[k][1] = i
    /\ \E a \in 1..3, b \in 1..3, c \in 1..3 :
          /\ {a, b, c} = 1..3
          /\ LaterOverlapping(mIn[a], mIn[b])
          /\ LaterOverlapping(mIn[b], mIn[c])

-----------------------------------------------------------------------------
(* group_contiguous_fragments() called on its own                           *)

MaxStarts == 4

\* fragment durations, in hours
GroupHours == {1, 5, 20, 24}

\* gaps between two consecutive starts: shorter than the duration, the
\* duration, 1.01 durations rounded down, the next minute, two durations
GapsFor(duration) ==
    {MinutesPerHour, duration, (101 * duration) \div 100, ((101 * duration) \div 100) + 1,
     2 * duration}

\* the strictly ascending list that starts at 0 and has these gaps
RECURSIVE StartsFrom(_, _, _)
StartsFrom(first, gaps, i) ==
    IF i > Len(gaps) THEN <<first>>
    ELSE <<first>> \o StartsFrom(first + gaps[i], gaps, i + 1)

GroupInputs ==
    {[fragments |-> <<>>, duration |-> timedelta_hours(h)] : h \in GroupHours}
    \cup UNION {
        {[fragments |-> StartsFrom(0, gaps, 1), duration |-> timedelta_hours(h)] :
            gaps \in UNION {[1..n -> GapsFor(timedelta_hours(h))] : n \in 0..(MaxStarts - 1)}} :
        h \in GroupHours}

InitGroup ==
    /\ mode = "group"
    /\ naming = "default"
    /\ scaling = "start"
    /\ cache = EmptyCache
    /\ productVersion = 0
    /\ now = ClockStart
    /\ tz = 0
    /\ last = NoLookup
    /\ mIn = <<>>
    /\ mOut = NotCalled
    /\ pIn \in GroupInputs
    /\ pOut = NotCalled
    /\ reader = NoneVal
    /\ procs = NoneVal

GroupCall ==
    /\ mode = "group"
    /\ pOut = NotCalled
    /\ pOut' = [ret |-> group_contiguous_fragments(pIn.fragments, pIn.duration)]
    /\ UNCHANGED <<mode, naming, scaling, cache, productVersion, now, tz, last, mIn, mOut,
                   pIn, reader, procs>>

NextGroup == GroupCall

SpecGroup == InitGroup /\ [][NextGroup]_vars

-----------------------------------------------------------------------------
(* Properties of group_contiguous_fragments                                 *)

RECURSIVE Flatten(_)
Flatten(runs) == IF runs = <<>> THEN <<>> ELSE Head(runs) \o Flatten(Tail(runs))

Grouped == mode = "group" /\ pOut # NotCalled

\* the runs are not empty and their concatenation is the list given
Partition(runs, fragments) ==
    /\ \A r \in 1..Len(runs) : Len(runs[r]) > 0
    /\ Flatten(runs) = fragments

\* the two examples: [0, 24h, 48h] and [0, 48h] with a duration of 24 hours
GroupExamples ==
    /\ (pIn.duration = timedelta_hours(24) /\ pIn.fragments = <<0, Hours(24), Hours(48)>>)
            => pOut.ret = <<<<0, Hours(24), Hours(48)>>>>
    /\ (pIn.duration = timedelta_hours(24) /\ pIn.fragments = <<0, Hours(48)>>)
            => pOut.ret = <<<<0>>, <<Hours(48)>>>>

\* C11: for a strictly ascending list of starts and a duration d, the runs
\* concatenate to the list, two consecutive starts are in the same run
\* exactly when their gap is at most 1.01 x d, and the runs are maximal;
\* [0, 24h, 48h] with d = 24h is one run and [0, 48h] is two.
C11_ContiguousGrouping ==
    Grouped =>
        /\ Partition(pOut.ret, pIn.fragments)
        /\ \A r \in 1..Len(pOut.ret) : \A k \in 1..(Len(pOut.ret[r]) - 1) :
              100 * (pOut.ret[r][k + 1] - pOut.ret[r][k]) <= 101 * pIn.duration
        /\ \A r \in 1..(Len(pOut.ret) - 1) :
              100 * (pOut.ret[r + 1][1] - LastOf(pOut.ret[r])) > 101 * pIn.duration
        /\ GroupExamples

\* C11, amended: as above, with two consecutive starts in the same run
\* exactly when their gap is less than 1.01 x d.
C11_GroupingBelowTolerance ==
    Grouped =>
        /\ Partition(pOut.ret, pIn.fragments)
        /\ \A r \in 1..Len(pOut.ret) : \A k \in 1..(Len(pOut.ret[r]) - 1) :
              100 * (pOut.ret[r][k + 1] - pOut.ret[r][k]) < 101 * pIn.duration
        /\ \A r \in 1..(Len(pOut.ret) - 1) :
              100 * (pOut.ret[r + 1][1] - LastOf(pOut.ret[r])) >= 101 * pIn.duration
        /\ GroupExamples

\* the list held a gap of exactly 1.01 x d, a gap of d and a longer gap,
\* and it was split into several runs, one of them of several starts
C11_Witness ==
    /\ Grouped
    /\ Len(pOut.ret) >= 2
    /\ \E r \in 1..Len(pOut.ret) : Len(pOut.ret[r]) >= 2
    /\ \E k \in 1..(Len(pIn.fragments) - 1) :
          100 * (pIn.fragments[k + 1] - pIn.fragments[k]) = 101 * pIn.duration
    /\ \E k \in 1..(Len(pIn.fragments) - 1) :
          pIn.fragments[k + 1] - pIn.fragments[k] = 2 * pIn.duration

-----------------------------------------------------------------------------
(* The read of the planned fragments, entry by entry, while other lookups   *)
(* write to the same store                                                  *)

MaxWrites == 2

\* the state of the reading lookup: where it is, what it planned, what it
\* has read, and how many writes the other lookups have made
Reader(pc, fragments, kwargs, entries, writes) ==
    [pc |-> pc, fragments |-> fragments, kwargs |-> kwargs, entries |-> entries,
     writes |-> writes]

\* what another lookup stores for a fragment
WrittenEntries(fragment) ==
    {CacheItem(Samples(fragment, fragment + timedelta_hours(fragment_hours(Product)), v), v) :
        v \in 0..1}

InitReads ==
    /\ mode \in {"versioned", "retention"}
    /\ naming = (IF mode = "versioned" THEN "ssc" ELSE "default")
    /\ scaling \in Anchors
    /\ cache = EmptyCache
    /\ productVersion = 0
    /\ now = ClockStart
    /\ tz = 0
    /\ last = NoLookup
    /\ mIn = <<>>
    /\ mOut = NotCalled
    /\ pIn = NoneVal
    /\ pOut = NotCalled
    /\ procs = NoneVal
    /\ \E l \in {FirstDay, ThreeDays} :
          reader = Reader("start",
                          fragment_list(fragment_hours(Product), l, scaling),
                          NoKwargs, <<>>, 0)

\* get_fragments_from_cache: with self.cache.transact()
Transact ==
    /\ mode = "versioned"
    /\ reader.pc = "start"
    /\ reader' = [reader EXCEPT !.pc = "transaction"]
    /\ UNCHANGED <<mode, naming, scaling, cache, productVersion, now, tz, last, mIn, mOut,
                   pIn, pOut, procs>>

\* one turn of the loop of get_fragments_from_cache, inside the transaction
ReadInTransaction ==
    /\ mode = "versioned"
    /\ reader.pc = "transaction"
    /\ Len(reader.entries) < Len(reader.fragments)
    /\ reader' = [reader EXCEPT !.entries =
                      Append(@, get_from_cache(cache, reader.fragments[Len(@) + 1], Product,
                                               productVersion, reader.kwargs))]
    /\ UNCHANGED <<mode, naming, scaling, cache, productVersion, now, tz, last, mIn, mOut,
                   pIn, pOut, procs>>

\* the end of the with block
Commit ==
    /\ mode = "versioned"
    /\ reader.pc = "transaction"
    /\ Len(reader.entries) = Len(reader.fragments)
    /\ reader' = [reader EXCEPT !.pc = "done"]
    /\ UNCHANGED <<mode, naming, scaling, cache, productVersion, now, tz, last, mIn, mOut,
                   pIn, pOut, procs>>

\* one turn of the comprehension of get_cache_entries: no transaction
ReadEntry ==
    /\ mode = "retention"
    /\ reader.pc = "start"
    /\ Len(reader.entries) < Len(reader.fragments)
    /\ reader' = [reader EXCEPT
                      !.entries = Append(@, get_cache_entry(cache, reader.fragments[Len(@) + 1],
                                                            Product, reader.kwargs)),
                      !.pc = IF Len(reader.entries) + 1 = Len(reader.fragments)
                             THEN "done" ELSE "start"]
    /\ UNCHANGED <<mode, naming, scaling, cache, productVersion, now, tz, last, mIn, mOut,
                   pIn, pOut, procs>>

\* CacheStore.transact(): while a transaction is open the store makes the
\* writes of others wait
WritersWait == reader.pc = "transaction"

\* another lookup stores a fragment
ConcurrentWrite ==
    /\ ~WritersWait
    /\ reader.writes < MaxWrites
    /\ \E i \in 1..Len(reader.fragments) :
          \E entry \in WrittenEntries(reader.fragments[i]) :
             cache' = set_cache_entry(cache, reader.fragments[i], Product, entry, NoKwargs)
    /\ reader' = [reader EXCEPT !.writes = @ + 1]
    /\ UNCHANGED <<mode, naming, scaling, productVersion, now, tz, last, mIn, mOut,
                   pIn, pOut, procs>>

NextReads ==
    \/ Transact
    \/ ReadInTransaction
    \/ Commit
    \/ ReadEntry
    \/ ConcurrentWrite

SpecReads == InitReads /\ [][NextReads]_vars

\* the lookup has read its first planned fragment and not yet its last
BetweenReads ==
    /\ Len(reader.entries) >= 1
    /\ Len(reader.entries) < Len(reader.fragments)

\* C15: in the versioned and in the retention lookup alike, between the
\* read of the first and the read of the last planned fragment no write of
\* another lookup takes effect on the store.
C15_ConsistentReadSnapshot ==
    [][BetweenReads => cache' = cache]_vars

-----------------------------------------------------------------------------
(* fragment_list() called on its own                                        *)

MaxStartHour == 25
MaxSpan == 6

\* fragment_hours: any whole number of hours up to a day
PlanHours == 1..24

\* requested windows: a start on the hour or half past it, and a length of
\* some half hours (none: start_time = stop_time)
PlanStarts == {Hours(h) + m : h \in 0..MaxStartHour, m \in {0, MinutesPerHour \div 2}}
PlanSpans == {k * (MinutesPerHour \div 2) : k \in 0..MaxSpan}

PlanInputs ==
    {[hours |-> h, dt_range |-> DateTimeRange(start, start + span), anchor |-> a] :
        h \in PlanHours, start \in PlanStarts, span \in PlanSpans, a \in Anchors}

InitPlan ==
    /\ mode = "plan"
    /\ naming = "default"
    /\ scaling = "start"
    /\ cache = EmptyCache
    /\ productVersion = 0
    /\ now = ClockStart
    /\ tz = 0
    /\ last = NoLookup
    /\ mIn = <<>>
    /\ mOut = NotCalled
    /\ pIn \in PlanInputs
    /\ pOut = NotCalled
    /\ reader = NoneVal
    /\ procs = NoneVal

\* fragment_list, with the scaled window and the rounded range it computes
\* on the way
Planned(hours, scaled, cache_dt_range) ==
    [ret |-> Fragments(cache_dt_range, timedelta_hours(hours)),
     scaled |-> scaled, cache_dt_range |-> cache_dt_range]

PlanCall ==
    /\ mode = "plan"
    /\ pOut = NotCalled
    /\ pOut' = Planned(pIn.hours, Scale(pIn.dt_range, cache_margins, pIn.anchor),
                       round_for_cache(Scale(pIn.dt_range, cache_margins, pIn.anchor),
                                       pIn.hours))
    /\ UNCHANGED <<mode, naming, scaling, cache, productVersion, now, tz, last, mIn, mOut,
                   pIn, reader, procs>>

NextPlan == PlanCall

SpecPlan == InitPlan /\ [][NextPlan]_vars

-----------------------------------------------------------------------------
(* Properties of the planner                                                *)

PlanDone == mode = "plan" /\ pOut # NotCalled

\* C17: the list fragment_list returns is strictly increasing, consecutive
\* elements differ by exactly fragment_hours, the first element is the
\* rounded start and the last is the largest such value strictly below the
\* rounded stop; no start occurs twice.
C17_FragmentEnumeration ==
    PlanDone =>
        /\ \A k \in 1..(Len(pOut.ret) - 1) :
              pOut.ret[k + 1] = pOut.ret[k] + timedelta_hours(pIn.hours)
        /\ \A j \in 1..Len(pOut.ret) : \A k \in 1..Len(pOut.ret) :
              (j # k) => (pOut.ret[j] # pOut.ret[k])
        /\ (pOut.cache_dt_range.start_time < pOut.cache_dt_range.stop_time)
              => /\ Len(pOut.ret) >= 1
                 /\ pOut.ret[1] = pOut.cache_dt_range.start_time
                 /\ LastOf(pOut.ret) < pOut.cache_dt_range.stop_time
                 /\ LastOf(pOut.ret) + timedelta_hours(pIn.hours)
                        >= pOut.cache_dt_range.stop_time

\* some planned fragment [f, f + fragment_hours) holds the instant
Covered(t) ==
    \E k \in 1..Len(pOut.ret) :
        pOut.ret[k] <= t /\ t < pOut.ret[k] + timedelta_hours(pIn.hours)

\* C18: for every range with start <= stop handed to round_for_cache (the
\* scaled window) and every fragment_hours in 1..24, the rounded start is at
\* or before its start and the rounded stop at or after its stop, both on
\* the hour, and every instant of the range lies in a planned fragment.
C18_RoundingCoversRange ==
    PlanDone =>
        /\ pOut.cache_dt_range.start_time <= pOut.scaled.start_time
        /\ pOut.cache_dt_range.stop_time >= pOut.scaled.stop_time
        /\ pOut.cache_dt_range.start_time % MinutesPerHour = 0
        /\ pOut.cache_dt_range.stop_time % MinutesPerHour = 0
        /\ \A t \in pOut.scaled.start_time..(pOut.scaled.stop_time - 1) : Covered(t)

\* a window that crosses midnight and ends past the hour was planned with a
\* fragment size that does not divide the day, in several fragments
C18_Witness ==
    /\ PlanDone
    /\ 24 % pIn.hours # 0
    /\ pOut.scaled.start_time >= 0
    /\ DayStart(pOut.scaled.start_time) < DayStart(pOut.scaled.stop_time)
    /\ pOut.scaled.stop_time % MinutesPerHour # 0
    /\ pOut.scaled.start_time % MinutesPerHour # 0
    /\ pOut.cache_dt_range.stop_time - pOut.cache_dt_range.start_time
          >= 2 * timedelta_hours(pIn.hours)

\* C19: whatever fragment_hours in 1..24, dividing the day or not, and
\* whether the request crosses midnight or not, every planned fragment start
\* has an hour of day that is a multiple of fragment_hours, on the hour; so
\* overlapping lookups plan the same starts.
C19_RequestIndependentGrid ==
    PlanDone =>
        \A k \in 1..Len(pOut.ret) :
            /\ HourOf(pOut.ret[k]) % pIn.hours = 0
            /\ pOut.ret[k] % MinutesPerHour = 0

\* C20: for every window with start_time <= stop_time, start_time =
\* stop_time on a fragment boundary other than midnight included, the rounded
\* stop is later than the rounded start and fragment_list returns at least
\* one fragment.
C20_AtLeastOneFragment ==
    PlanDone =>
        /\ pOut.cache_dt_range.stop_time > pOut.cache_dt_range.start_time
        /\ Len(pOut.ret) >= 1

-----------------------------------------------------------------------------
(* Two versioned lookups running at the same time, statement by statement   *)

\* the lookups that run together
Running == {1, 2}

\* where a running lookup is: its arguments, the version it computed, its
\* plan, what its read gave, the runs it has to fetch, the run it is at, what
\* get_data returned for that run and the fragment of the run it stores next
Lookup(pc, dt_range, kwargs, version, fragments, read, groups, g, ret, w) ==
    [pc |-> pc, dt_range |-> dt_range, kwargs |-> kwargs, version |-> version,
     fragments |-> fragments, read |-> read, groups |-> groups, g |-> g, ret |-> ret,
     w |-> w]

NotStarted == Lookup("start", DateTimeRange(0, 0), NoKwargs, NoVersion, <<>>, <<>>, <<>>, 0,
                     NoneVal, 0)

\* the windows the running lookups ask for
ConcurrentLookups == {FirstDay, ThreeDays}

InitConcurrent ==
    /\ mode = "versioned"
    /\ naming = "ssc"
    /\ scaling \in Anchors
    /\ cache = EmptyCache
    /\ productVersion = 0
    /\ now = ClockStart
    /\ tz = 0
    /\ last = NoLookup
    /\ mIn = <<>>
    /\ mOut = NotCalled
    /\ pIn = NoneVal
    /\ pOut = NotCalled
    /\ reader = NoneVal
    /\ procs = [p \in Running |-> NotStarted]

\* wrapped() up to the read: the version is computed, then the plan
ComputeVersion(p) ==
    /\ procs[p].pc = "start"
    /\ \E l \in ConcurrentLookups :
          procs' = [procs EXCEPT ![p] =
                       Lookup("read", l, NoKwargs, productVersion,
                              fragment_list(fragment_hours(Product), l, scaling),
                              <<>>, <<>>, 0, NoneVal, 0)]
    /\ UNCHANGED <<mode, naming, scaling, cache, productVersion, now, tz, last, mIn, mOut,
                   pIn, pOut, reader>>

\* where the lookup goes after run g: the next run, or the end
AfterRun(l) ==
    [l EXCEPT !.g = @ + 1, !.ret = NoneVal, !.w = 0,
              !.pc = IF l.g + 1 > Len(l.groups) THEN "done" ELSE "fetch"]

\* the lookup with its read made: the entries in the transaction, then the
\* runs of missing fragments
WithRead(l, read) ==
    AfterRun([l EXCEPT !.read = read,
                       !.groups = MissingGroups(l.fragments, read, fragment_hours(Product)),
                       !.g = 0])

\* get_fragments_from_cache in its transaction, and the grouping of what is
\* missing
ReadFragments(p) ==
    /\ procs[p].pc = "read"
    /\ procs' = [procs EXCEPT ![p] =
                    WithRead(@, get_fragments_from_cache(cache, @.fragments, Product,
                                                         @.version, @.kwargs))]
    /\ UNCHANGED <<mode, naming, scaling, cache, productVersion, now, tz, last, mIn, mOut,
                   pIn, pOut, reader>>

\* the lookup with the answer of get_data for its run: an exception ends it,
\* None leaves add_to_cache nothing to store, a series is stored next
WithAnswer(l, ret) ==
    IF IsError(ret) THEN [l EXCEPT !.pc = "raised", !.ret = ret]
    ELSE IF ret = NoneVal THEN AfterRun(l)
    ELSE [l EXCEPT !.pc = "write", !.ret = ret, !.w = 1]

\* get_data for the run the lookup is at
FetchRun(p) ==
    /\ procs[p].pc = "fetch"
    /\ \E kind \in RespKinds :
          procs' = [procs EXCEPT ![p] =
                       WithAnswer(@, get_data(kind, @.groups[@.g][1],
                                              LastOf(@.groups[@.g])
                                                  + timedelta_hours(fragment_hours(Product))))]
    /\ UNCHANGED <<mode, naming, scaling, cache, productVersion, now, tz, last, mIn, mOut,
                   pIn, pOut, reader>>

\* a store that takes the whole rest of the run in one write
StoreRun(c, variable, fragments, w, hours, version) ==
    AddFragments(c, variable, fragments, w, Product, hours, version)

\* one turn of add_to_cache's loop: one set_cache_entry
StoreNext(c, variable, fragments, w, hours, version) ==
    set_cache_entry(c, fragments[w], Product,
                    CacheItem(getitem(variable, fragments[w],
                                      fragments[w] + timedelta_hours(hours)),
                              version),
                    NoKwargs)

\* the lookup after it stored fragment w of its run
Stored(l) ==
    IF l.w = Len(l.groups[l.g]) THEN AfterRun(l) ELSE [l EXCEPT !.w = @ + 1]

\* the lookup stores the next fragment of the run it fetched
WriteFragment(p) ==
    /\ procs[p].pc = "write"
    /\ cache' = StoreNext(cache, procs[p].ret, procs[p].groups[procs[p].g], procs[p].w,
                          fragment_hours(Product), procs[p].version)
    /\ procs' = [procs EXCEPT ![p] = Stored(@)]
    /\ UNCHANGED <<mode, naming, scaling, productVersion, now, tz, last, mIn, mOut,
                   pIn, pOut, reader>>

\* the version function starts returning a higher version while lookups run
NewVersion ==
    /\ productVersion < MaxVersion
    /\ productVersion' = productVersion + 1
    /\ UNCHANGED <<mode, naming, scaling, cache, now, tz, last, mIn, mOut,
                   pIn, pOut, reader, procs>>

NextConcurrent ==
    \/ \E p \in Running : ComputeVersion(p)
    \/ \E p \in Running : ReadFragments(p)
    \/ \E p \in Running : FetchRun(p)
    \/ \E p \in Running : WriteFragment(p)
    \/ NewVersion

SpecConcurrent == InitConcurrent /\ [][NextConcurrent]_vars

\* C22: under every interleaving of two versioned lookups, the product
\* version rising between their version computations included, no write
\* replaces a stored entry by one of a lower version, and no entry is removed.
C22_LastWriteWins ==
    [][\A k \in DOMAIN cache :
          k \in DOMAIN cache' /\ cache'[k].version >= cache[k].version]_vars

\* the lookup has made its read and left the transaction
HasRead(l) == l.pc \in {"fetch", "write", "raised", "done"}

\* lookup q is storing a run of several fragments, some stored and some not
MidRun(q) ==
    /\ procs[q].pc = "write"
    /\ procs[q].w > 1
    /\ Cardinality({procs[q].groups[procs[q].g][k] :
                       k \in 1..Len(procs[q].groups[procs[q].g])}) >= 2

\* the read of lookup p found fragment f
Found(p, f) ==
    \E i \in 1..Len(procs[p].fragments) :
        procs[p].fragments[i] = f /\ procs[p].read[i] # NoneVal

\* C23: the entries of a run are stored one key at a time, each by a lookup
\* that has made its read and left its read transaction, and the store is
\* open to the other lookups between two of these writes.
C23_NonAtomicWriteBack ==
    [][cache' # cache
          => /\ Cardinality(Changed(cache, cache')) <= 1
             /\ DOMAIN cache \subseteq DOMAIN cache'
             /\ \E q \in Running :
                   /\ procs[q].pc = "write" /\ HasRead(procs[q])
                   /\ procs' = [procs EXCEPT ![q] = Stored(procs[q])]
                   /\ Changed(cache, cache')
                         \subseteq KeysOf(<<procs[q].groups[procs[q].g][procs[q].w]>>,
                                          procs[q].kwargs)]_vars

\* a lookup made its read while another was in the middle of storing a run:
\* its snapshot holds some fragments of that run and lacks others
C23_Witness ==
    \E p \in Running, q \in Running :
        /\ p # q
        /\ MidRun(q)
        /\ HasRead(procs[p])
        /\ \E i \in 1..Len(procs[q].groups[procs[q].g]),
              j \in 1..Len(procs[q].groups[procs[q].g]) :
              /\ Found(p, procs[q].groups[procs[q].g][i])
              /\ procs[q].groups[procs[q].g][j] \in
                     {procs[p].fragments[k] : k \in 1..Len(procs[p].fragments)}
              /\ ~Found(p, procs[q].groups[procs[q].g][j])

====
